---- MODULE Spec2Model ----
(***************************************************************************)
(* Shelf-life advisor of the pantry API (src/api/src/main.py):             *)
(* EXPIRATION_RULES, suggest_expiration_date and the suggest-expiration    *)
(* handler, with the current date (date.today()) as environment state.     *)
(*                                                                         *)
(* Strings are sequences of one-character strings, optional values are     *)
(* None (<<>>) or Some(x) (<<x>>), dates are <<year, month, day>> and the  *)
(* date arithmetic is the one of Python's datetime.date.                   *)
(***************************************************************************)
EXTENDS Integers, Sequences, FiniteSets, TLC

\* Python's None and a present optional value.
None == <<>>
Some(x) == <<x>>

(***************************************************************************)
(* Bounds of the model.                                                    *)
(***************************************************************************)
\* How many days the current date may advance during a run.
MaxTicks == 2
\* How many times a caller may repeat a call after the first one.
MaxRepeats == 1
\* How many callers run suggest_expiration_date at the same time.
NumCallers == 2
\* How many scan sessions may be created during a run.
MaxSessions == 1
\* How many scan-mobile requests may arrive during a run.
MaxScans == 2

(***************************************************************************)
(* The rule table, lines 620-698, in dictionary (insertion) order.         *)
(***************************************************************************)
RULE_dairy ==
  [category |-> "dairy",
   keywords |-> <<<<"m","i","l","k">>,
                  <<"c","r","e","a","m">>,
                  <<"y","o","g","u","r","t">>,
                  <<"c","h","e","e","s","e">>,
                  <<"b","u","t","t","e","r">>,
                  <<"s","o","u","r"," ","c","r","e","a","m">>,
                  <<"c","o","t","t","a","g","e"," ","c","h","e","e","s","e">>>>,
   pantry |-> None, fridge |-> Some(7), freezer |-> Some(90)]

RULE_meat ==
  [category |-> "meat",
   keywords |-> <<<<"c","h","i","c","k","e","n">>,
                  <<"b","e","e","f">>,
                  <<"p","o","r","k">>,
                  <<"t","u","r","k","e","y">>,
                  <<"l","a","m","b">>,
                  <<"s","t","e","a","k">>,
                  <<"g","r","o","u","n","d">>,
                  <<"s","a","u","s","a","g","e">>,
                  <<"b","a","c","o","n">>,
                  <<"h","a","m">>>>,
   pantry |-> None, fridge |-> Some(3), freezer |-> Some(180)]

RULE_seafood ==
  [category |-> "seafood",
   keywords |-> <<<<"f","i","s","h">>,
                  <<"s","a","l","m","o","n">>,
                  <<"t","u","n","a">>,
                  <<"s","h","r","i","m","p">>,
                  <<"c","r","a","b">>,
                  <<"l","o","b","s","t","e","r">>,
                  <<"s","e","a","f","o","o","d">>>>,
   pantry |-> None, fridge |-> Some(2), freezer |-> Some(90)]

RULE_produce_perishable ==
  [category |-> "produce_perishable",
   keywords |-> <<<<"l","e","t","t","u","c","e">>,
                  <<"s","p","i","n","a","c","h">>,
                  <<"k","a","l","e">>,
                  <<"b","r","o","c","c","o","l","i">>,
                  <<"c","a","r","r","o","t","s">>,
                  <<"c","e","l","e","r","y">>,
                  <<"b","e","l","l"," ","p","e","p","p","e","r">>,
                  <<"c","u","c","u","m","b","e","r">>,
                  <<"t","o","m","a","t","o">>,
                  <<"b","e","r","r","i","e","s">>,
                  <<"g","r","a","p","e","s">>>>,
   pantry |-> None, fridge |-> Some(7), freezer |-> Some(30)]

RULE_produce_long ==
  [category |-> "produce_long",
   keywords |-> <<<<"p","o","t","a","t","o">>,
                  <<"o","n","i","o","n">>,
                  <<"g","a","r","l","i","c">>,
                  <<"a","p","p","l","e">>,
                  <<"o","r","a","n","g","e">>,
                  <<"b","a","n","a","n","a">>>>,
   pantry |-> Some(30), fridge |-> Some(14), freezer |-> Some(90)]

RULE_bread ==
  [category |-> "bread",
   keywords |-> <<<<"b","r","e","a","d">>,
                  <<"b","a","g","e","l">>,
                  <<"m","u","f","f","i","n">>,
                  <<"r","o","l","l">>,
                  <<"b","u","n">>,
                  <<"c","r","o","i","s","s","a","n","t">>>>,
   pantry |-> Some(5), fridge |-> Some(7), freezer |-> Some(90)]

RULE_eggs ==
  [category |-> "eggs",
   keywords |-> <<<<"e","g","g">>,
                  <<"e","g","g","s">>>>,
   pantry |-> None, fridge |-> Some(21), freezer |-> None]

RULE_canned ==
  [category |-> "canned",
   keywords |-> <<<<"c","a","n">>,
                  <<"c","a","n","n","e","d">>,
                  <<"s","o","u","p">>,
                  <<"b","e","a","n","s">>,
                  <<"c","o","r","n">>,
                  <<"p","e","a","s">>,
                  <<"t","u","n","a"," ","c","a","n">>>>,
   pantry |-> Some(365), fridge |-> Some(365), freezer |-> None]

RULE_dry ==
  [category |-> "dry",
   keywords |-> <<<<"p","a","s","t","a">>,
                  <<"r","i","c","e">>,
                  <<"f","l","o","u","r">>,
                  <<"s","u","g","a","r">>,
                  <<"c","e","r","e","a","l">>,
                  <<"o","a","t","s">>,
                  <<"q","u","i","n","o","a">>,
                  <<"l","e","n","t","i","l","s">>,
                  <<"b","e","a","n","s"," ","d","r","y">>>>,
   pantry |-> Some(365), fridge |-> Some(365), freezer |-> Some(365)]

RULE_packaged ==
  [category |-> "packaged",
   keywords |-> <<<<"c","h","i","p","s">>,
                  <<"c","r","a","c","k","e","r","s">>,
                  <<"c","o","o","k","i","e","s">>,
                  <<"n","u","t","s">>,
                  <<"p","r","e","t","z","e","l","s">>,
                  <<"p","o","p","c","o","r","n">>>>,
   pantry |-> Some(90), fridge |-> Some(90), freezer |-> Some(180)]

RULE_beverages ==
  [category |-> "beverages",
   keywords |-> <<<<"j","u","i","c","e">>,
                  <<"s","o","d","a">>,
                  <<"w","a","t","e","r">>,
                  <<"c","o","f","f","e","e">>,
                  <<"t","e","a">>>>,
   pantry |-> Some(180), fridge |-> Some(7), freezer |-> None]

\* The table with the bread and produce_long entries in each other's place.
EXPIRATION_RULES_BreadFirst ==
  << RULE_dairy, RULE_meat, RULE_seafood, RULE_produce_perishable,
     RULE_bread, RULE_produce_long, RULE_eggs, RULE_canned, RULE_dry,
     RULE_packaged, RULE_beverages >>

\* EXPIRATION_RULES.items() iterates in insertion order.
EXPIRATION_RULES ==
  << RULE_dairy, RULE_meat, RULE_seafood, RULE_produce_perishable,
     RULE_produce_long, RULE_bread, RULE_eggs, RULE_canned, RULE_dry,
     RULE_packaged, RULE_beverages >>

NumCategories == Len(EXPIRATION_RULES)

(***************************************************************************)
(* str.lower() and the substring test `keyword in item_name_lower`.        *)
(***************************************************************************)
UpperLetters ==
  <<"A","B","C","D","E","F","G","H","I","J","K","L","M",
    "N","O","P","Q","R","S","T","U","V","W","X","Y","Z">>
LowerLetters ==
  <<"a","b","c","d","e","f","g","h","i","j","k","l","m",
    "n","o","p","q","r","s","t","u","v","w","x","y","z">>

\* A character outside ASCII is written as its code point.  U+017F is the
\* Latin small letter long s: str.lower() leaves it alone, str.upper() maps
\* it to "S".
LONG_S == "U+017F"

\* str.lower() on one character of the model's alphabet.
LowerChar(c) ==
  IF \E i \in 1..26 : UpperLetters[i] = c
  THEN LowerLetters[CHOOSE i \in 1..26 : UpperLetters[i] = c]
  ELSE c

\* item_name.lower(), line 705.
Lower(s) == [i \in 1..Len(s) |-> LowerChar(s[i])]

\* Variant of Contains that compares the keyword with the whole name.
ContainsWhole(s, k) == s = k

\* `keyword in item_name_lower`, line 714.
Contains(s, k) ==
  \E i \in 0..(Len(s) - Len(k)) : SubSeq(s, i + 1, i + Len(k)) = k

(***************************************************************************)
(* datetime.date: ordinals, date + timedelta(days), (d1 - d2).days.        *)
(***************************************************************************)
\* date.max.toordinal(), the ordinal of 9999-12-31.
MAXORDINAL == 3652059
DI400Y == 146097
DI100Y == 36524
DI4Y == 1461

DAYS_IN_MONTH == <<31, 28, 31, 30, 31, 30, 31, 31, 30, 31, 30, 31>>
DAYS_BEFORE_MONTH == <<0, 31, 59, 90, 120, 151, 181, 212, 243, 273, 304, 334>>

IsLeap(y) == y % 4 = 0 /\ (y % 100 # 0 \/ y % 400 = 0)

DaysBeforeYear(y) ==
  (y - 1) * 365 + ((y - 1) \div 4) - ((y - 1) \div 100) + ((y - 1) \div 400)

DaysBeforeMonth(y, m) ==
  DAYS_BEFORE_MONTH[m] + (IF m > 2 /\ IsLeap(y) THEN 1 ELSE 0)

\* date.toordinal()
ToOrdinal(d) == DaysBeforeYear(d[1]) + DaysBeforeMonth(d[1], d[2]) + d[3]

\* date.fromordinal(n)
FromOrdinal(ord) ==
  LET n0   == ord - 1
      n400 == n0 \div DI400Y
      r400 == n0 % DI400Y
      n100 == r400 \div DI100Y
      r100 == r400 % DI100Y
      n4   == r100 \div DI4Y
      r4   == r100 % DI4Y
      n1   == r4 \div 365
      n    == r4 % 365
      year == n400 * 400 + 1 + n100 * 100 + n4 * 4 + n1
      leap == n1 = 3 /\ (n4 # 24 \/ n100 = 3)
      m0   == (n + 50) \div 32
      p0   == DAYS_BEFORE_MONTH[m0] + (IF m0 > 2 /\ leap THEN 1 ELSE 0)
      month == IF p0 > n THEN m0 - 1 ELSE m0
      prec == IF p0 > n
              THEN p0 - (DAYS_IN_MONTH[month]
                         + (IF month = 2 /\ leap THEN 1 ELSE 0))
              ELSE p0
  IN  IF n1 = 4 \/ n100 = 4
      THEN <<year - 1, 12, 31>>
      ELSE <<year, month, n - prec + 1>>

\* Whether d + timedelta(days) is a date; Python raises OverflowError if not.
CanAddDays(d, days) ==
  LET o == ToOrdinal(d) + days IN 0 < o /\ o <= MAXORDINAL

\* d + timedelta(days=days)
AddDays(d, days) == FromOrdinal(ToOrdinal(d) + days)

\* (d1 - d2).days
DaysBetween(d1, d2) == ToOrdinal(d1) - ToOrdinal(d2)

\* date.isoformat(): the ten characters YYYY-MM-DD.
Digits == <<"0", "1", "2", "3", "4", "5", "6", "7", "8", "9">>
Digit(n) == Digits[n + 1]
IsoFormat(d) ==
  << Digit(d[1] \div 1000), Digit((d[1] \div 100) % 10),
     Digit((d[1] \div 10) % 10), Digit(d[1] % 10), "-",
     Digit(d[2] \div 10), Digit(d[2] % 10), "-",
     Digit(d[3] \div 10), Digit(d[3] % 10) >>

(***************************************************************************)
(* Inputs of the calls.                                                    *)
(***************************************************************************)
N_milk == <<"m","i","l","k">>
N_Milk == <<"M","i","l","k">>
N_banana_bread == <<"b","a","n","a","n","a"," ","b","r","e","a","d">>
N_bread == <<"b","r","e","a","d">>
N_canned_tuna == <<"c","a","n","n","e","d"," ","t","u","n","a">>
N_chicken_breast == <<"c","h","i","c","k","e","n"," ","b","r","e","a","s","t">>
N_popcorn == <<"p","o","p","c","o","r","n">>
N_eggs == <<"e","g","g","s">>
N_xyz == <<"x","y","z">>
N_steak == <<"s","t","e","a","k">>
N_long_s_oup == <<LONG_S,"o","u","p">>

\* str.upper() on one character of the model's alphabet.
UpperChar(c) ==
  IF c = LONG_S THEN "S"
  ELSE IF \E i \in 1..26 : LowerLetters[i] = c
  THEN UpperLetters[CHOOSE i \in 1..26 : LowerLetters[i] = c]
  ELSE c

\* The name with every letter in upper case, and in lower case.
CaseVariants(s) ==
  { [i \in 1..Len(s) |-> UpperChar(s[i])], [i \in 1..Len(s) |-> LowerChar(s[i])] }

Names ==
  { <<>>, N_milk, N_Milk, N_banana_bread, N_bread, N_canned_tuna,
    N_chicken_breast, N_popcorn, N_eggs, N_xyz, N_steak, N_long_s_oup }

\* storage_type: absent (None), the three storage modes, an unrecognized
\* string and the empty string.
StorageInputs ==
  { None, Some("pantry"), Some("fridge"), Some("freezer"),
    Some("shelf"), Some("") }

\* purchased_date: absent, an ordinary date, a date before a leap day and a
\* date at the upper end of datetime.date's range.
DateInputs ==
  { None, Some(<<2024, 1, 1>>), Some(<<2024, 2, 26>>), Some(<<9999, 12, 30>>) }

\* The two entry points: the POST handler and a direct function call.
Vias == { "handler", "direct" }

\* The current date when the process starts.
Clock0 == ToOrdinal(<<2024, 1, 5>>)

(***************************************************************************)
(* State.                                                                  *)
(***************************************************************************)
VARIABLES
  clock,            \* ordinal of date.today()
  pc,               \* position of the call in progress
  via,              \* entry point of the call in progress
  request,          \* [name, storage_type, purchased_date] as given by the caller
  storage_type,     \* suggest_expiration_date's storage_type parameter
  item_name_lower,  \* local of suggest_expiration_date
  today,            \* local of suggest_expiration_date (the anchor date)
  matched_category, \* local of suggest_expiration_date
  matched_days,     \* local of suggest_expiration_date
  ci,               \* position of `for category, rules in ...items()`
  ki,               \* position of `for keyword in rules["keywords"]`
  steps,            \* iterations of the inner loop body made by this call
  ret,              \* what suggest_expiration_date returned or raised
  response,         \* what the handler answered
  prev,             \* the earlier calls of this caller and their outcomes
  expiration_rules, \* the module-level dict EXPIRATION_RULES as it is at run time
  scan_sessions,    \* the module-level dict scan_sessions (line 48)
  frames,           \* the call frames of the concurrent callers
  openai_client,    \* line 45: TRUE when the OpenAI client was constructed
  USDA_API_KEY,     \* line 31: TRUE when the key is set in the environment
  items_table,      \* the rows of supabase.table("items"), in insertion order
  scans,            \* the calls of scan_receipt_mobile, in order of arrival
  reply             \* the answer of a handler that has just returned or raised

vars ==
  << clock, pc, via, request, storage_type, item_name_lower, today,
     matched_category, matched_days, ci, ki, steps, ret, response, prev,
     expiration_rules, scan_sessions, frames,
     openai_client, USDA_API_KEY, items_table, scans, reply >>

globals == << expiration_rules, scan_sessions >>

\* The state that only the receipt-scanning endpoints read or write.
scanning == << openai_client, USDA_API_KEY, items_table, scans, reply >>

\* The state of the caller of the sequential specification.
sequential ==
  << pc, via, request, storage_type, item_name_lower, today,
     matched_category, matched_days, ci, ki, steps, ret, response, prev >>

locals ==
  << item_name_lower, today, matched_category, matched_days, ci, ki, steps >>

Today == FromOrdinal(clock)

NoRequest == [name |-> <<>>, storage_type |-> None, purchased_date |-> None]
NoRet ==
  [kind |-> "none", suggested_date |-> None, confidence |-> "",
   category |-> None]
NoResponse ==
  [status |-> 0, suggested_date |-> None, days_from_now |-> None,
   confidence |-> "", category |-> None]

Callers == 1..NumCallers

\* The frame of a caller that is not inside a call.
IdleFrame ==
  [pc |-> "idle", name |-> <<>>, storage_type |-> "pantry",
   item_name_lower |-> <<>>, today |-> None, matched_category |-> None,
   matched_days |-> None, ci |-> 1, ki |-> 1, ret |-> NoRet]

(***************************************************************************)
(* The pieces of suggest_expiration_date and of the handler.               *)
(***************************************************************************)
\* Variant of StorageOrDefault that defaults to the refrigerator.
StorageOrDefaultFridge(st) ==
  IF st = None \/ st = Some("") THEN "fridge" ELSE st[1]

\* Line 749: storage = request.storage_type or "pantry".
StorageOrDefault(st) ==
  IF st = None \/ st = Some("") THEN "pantry" ELSE st[1]

\* Line 700: the parameter default storage_type = "pantry".
StorageParam(st) == IF st = None THEN "pantry" ELSE st[1]

\* The storage_type the function body sees, by entry point.
EntryStorage(v, st) ==
  IF v = "handler" THEN StorageOrDefault(st) ELSE StorageParam(st)

\* Variant of Anchor that always counts from the current date.
AnchorIgnoresPurchase(pd, now) == now

\* Variant of Anchor whose default is the day after the current date.
AnchorTomorrow(pd, now) ==
  IF pd # None THEN pd[1] ELSE FromOrdinal(ToOrdinal(now) + 1)

\* Line 706: today = purchased_date if purchased_date else date.today().
Anchor(pd, now) == IF pd # None THEN pd[1] ELSE now

\* Variant of DaysFor whose second and third branch do not test storage_type.
DaysForAnyStorage(rules, st, md) ==
  IF st = "freezer" /\ rules.freezer # None THEN rules.freezer
  ELSE IF rules.fridge # None THEN rules.fridge
  ELSE IF rules.pantry # None THEN rules.pantry
  ELSE md

\* Variant of DaysFor that reads an absent entry as a shelf life of 0 days.
DaysForNoneAsZero(rules, st, md) ==
  LET e == IF st = "freezer" THEN rules.freezer
           ELSE IF st = "fridge" THEN rules.fridge
           ELSE IF st = "pantry" THEN rules.pantry
           ELSE md
  IN  IF st \in {"freezer", "fridge", "pantry"} /\ e = None THEN Some(0) ELSE e

\* Variant of DaysFor without the branch for the refrigerator.
DaysForNoFridge(rules, st, md) ==
  IF st = "freezer" /\ rules.freezer # None THEN rules.freezer
  ELSE IF st = "pantry" /\ rules.pantry # None THEN rules.pantry
  ELSE md

\* Lines 717-722: the if/elif chain that assigns matched_days.
DaysFor(rules, st, md) ==
  IF st = "freezer" /\ rules.freezer # None THEN rules.freezer
  ELSE IF st = "fridge" /\ rules.fridge # None THEN rules.fridge
  ELSE IF st = "pantry" /\ rules.pantry # None THEN rules.pantry
  ELSE md

\* Variant of ShouldBreak that never leaves the loops early.
ShouldBreakNever(md) == FALSE

\* Variant of ShouldBreak that leaves the loops whatever matched_days is.
ShouldBreakAlways(md) == TRUE

\* Variant of RulesAfterIteration that stores the day count found for the
\* storage type back into the rule's pantry entry.
RulesAfterIterationStores(tbl, i, st, md) ==
  IF md # None THEN [tbl EXCEPT ![i].pantry = md] ELSE tbl

\* Lines 712-722: `rules` aliases the entry of EXPIRATION_RULES being
\* visited; the loop body only reads through it, so the table after an
\* iteration is the table before it.
RulesAfterIteration(tbl, i, st, md) == tbl

\* Lines 724-725 and 727-728: if matched_days is not None: break.
ShouldBreak(md) == md # None

\* Variant of FallbackDays: two weeks.
FallbackDaysTwoWeeks == 2 * 7

\* Line 740: the default shelf life of an unmatched item.
FallbackDays == 7

\* Variant of HighReturn that counts one day more than the shelf life.
HighReturnOneMore(t, md, mc) ==
  IF CanAddDays(t, md[1] + 1)
  THEN [kind |-> "ok", suggested_date |-> AddDays(t, md[1] + 1),
        confidence |-> "high", category |-> mc]
  ELSE [NoRet EXCEPT !.kind = "raise"]

\* Lines 733-735: the high-confidence result.
HighReturn(t, md, mc) ==
  IF CanAddDays(t, md[1])
  THEN [kind |-> "ok", suggested_date |-> AddDays(t, md[1]),
        confidence |-> "high", category |-> mc]
  ELSE [NoRet EXCEPT !.kind = "raise"]

\* Variant of LowReturn that returns the last keyword-matched category.
LowReturnKeepsCategory(t, mc) ==
  IF CanAddDays(t, FallbackDays)
  THEN [kind |-> "ok", suggested_date |-> AddDays(t, FallbackDays),
        confidence |-> "low", category |-> mc]
  ELSE [NoRet EXCEPT !.kind = "raise"]

\* Variant of LowReturn that grades the default as "medium".
LowReturnMedium(t, mc) ==
  IF CanAddDays(t, FallbackDays)
  THEN [kind |-> "ok", suggested_date |-> AddDays(t, FallbackDays),
        confidence |-> "medium", category |-> None]
  ELSE [NoRet EXCEPT !.kind = "raise"]

\* Lines 737-741: the low-confidence default.
LowReturn(t, mc) ==
  IF CanAddDays(t, FallbackDays)
  THEN [kind |-> "ok", suggested_date |-> AddDays(t, FallbackDays),
        confidence |-> "low", category |-> None]
  ELSE [NoRet EXCEPT !.kind = "raise"]

\* Variant of ResponseOf that counts days_from_now from the anchor date of
\* the suggestion instead of the current date.
ResponseOfFromAnchor(r, now) ==
  [status |-> 200,
   suggested_date |-> Some(IsoFormat(r.suggested_date)),
   days_from_now |-> Some(DaysBetween(r.suggested_date, today)),
   confidence |-> r.confidence,
   category |-> r.category]

\* Lines 756-763: the response body built from the function's result.
ResponseOf(r, now) ==
  [status |-> 200,
   suggested_date |-> Some(IsoFormat(r.suggested_date)),
   days_from_now |-> Some(DaysBetween(r.suggested_date, now)),
   confidence |-> r.confidence,
   category |-> r.category]

\* Lines 764-766: any exception becomes HTTP 500.
ErrorResponse == [NoResponse EXCEPT !.status = 500]

(***************************************************************************)
(* Initial state and actions.                                              *)
(***************************************************************************)
\* No answer is being sent.
NoReply ==
  [op |-> "none", code |-> 0, token |-> None, status |-> "", result |-> None,
   by |-> 0, handler |-> ""]

\* The state of the suggestion advisor and of the stores after the module
\* is loaded.
InitLoaded ==
  /\ clock = Clock0
  /\ pc = "idle"
  /\ via = "direct"
  /\ request = NoRequest
  /\ storage_type = "pantry"
  /\ item_name_lower = <<>>
  /\ today = None
  /\ matched_category = None
  /\ matched_days = None
  /\ ci = 1
  /\ ki = 1
  /\ steps = 0
  /\ ret = NoRet
  /\ response = NoResponse
  /\ prev = <<>>
  /\ expiration_rules = EXPIRATION_RULES
  /\ scan_sessions = <<>>
  /\ frames = [c \in Callers |-> IdleFrame]
  /\ items_table = <<>>
  /\ scans = <<>>
  /\ reply = NoReply

\* A deployment with OPENAI_API_KEY set and USDA_API_KEY unset; the advisor
\* reads neither.
Init ==
  /\ InitLoaded
  /\ openai_client = TRUE
  /\ USDA_API_KEY = FALSE

\* Lines 31-32 and 45: each of the two keys is set or not.
InitScan ==
  /\ InitLoaded
  /\ openai_client \in BOOLEAN
  /\ USDA_API_KEY \in BOOLEAN

\* The environment: midnight passes.
Tick ==
  /\ clock < Clock0 + MaxTicks
  /\ clock' = clock + 1
  /\ UNCHANGED << pc, via, request, storage_type, locals, ret, response, prev >>
  /\ UNCHANGED globals
  /\ UNCHANGED << frames, scanning >>

\* A caller posts to /api/items/suggest-expiration (lines 744-754) or calls
\* suggest_expiration_date directly (line 700).
Call ==
  /\ pc = "idle"
  /\ \E v \in Vias, n \in Names, st \in StorageInputs, pd \in DateInputs :
       /\ via' = v
       /\ request' = [name |-> n, storage_type |-> st, purchased_date |-> pd]
       /\ storage_type' = EntryStorage(v, st)
  /\ pc' = "enter"
  /\ ret' = NoRet
  /\ response' = NoResponse
  /\ prev' = <<>>
  /\ UNCHANGED << clock, locals >>
  /\ UNCHANGED globals
  /\ UNCHANGED << frames, scanning >>

\* Lines 705-710: the function's prologue.
Enter ==
  /\ pc = "enter"
  /\ item_name_lower' = Lower(request.name)
  /\ today' = Anchor(request.purchased_date, Today)
  /\ matched_category' = None
  /\ matched_days' = None
  /\ ci' = 1
  /\ ki' = 1
  /\ steps' = 0
  /\ pc' = "scan"
  /\ UNCHANGED << clock, via, request, storage_type, ret, response, prev >>
  /\ UNCHANGED globals
  /\ UNCHANGED << frames, scanning >>

\* Variant of ScanStep that, after a keyword hit on a category without an
\* entry for the storage type, goes through the keywords of that category
\* again from the first one.
ScanStepRescans ==
  /\ pc = "scan"
  /\ steps' = steps + 1
  /\ LET rules == expiration_rules[ci]
         hit   == Contains(item_name_lower, rules.keywords[ki])
         md    == IF hit THEN DaysFor(rules, storage_type, matched_days)
                         ELSE matched_days
     IN  /\ matched_category' =
              IF hit THEN Some(rules.category) ELSE matched_category
         /\ matched_days' = md
         /\ IF hit /\ ShouldBreak(md)
            THEN /\ pc' = "decide"
                 /\ UNCHANGED << ci, ki >>
            ELSE IF hit
            THEN /\ ki' = 1
                 /\ UNCHANGED << pc, ci >>
            ELSE IF ki < Len(rules.keywords)
            THEN /\ ki' = ki + 1
                 /\ UNCHANGED << pc, ci >>
            ELSE IF ShouldBreak(md)
            THEN /\ pc' = "decide"
                 /\ UNCHANGED << ci, ki >>
            ELSE IF ci < Len(expiration_rules)
            THEN /\ ci' = ci + 1
                 /\ ki' = 1
                 /\ UNCHANGED pc
            ELSE /\ pc' = "decide"
                 /\ UNCHANGED << ci, ki >>
  /\ expiration_rules' =
       RulesAfterIteration(expiration_rules, ci, storage_type, matched_days')
  /\ UNCHANGED << clock, via, request, storage_type, item_name_lower, today,
                  ret, response, prev, scan_sessions >>
  /\ UNCHANGED << frames, scanning >>

\* Lines 712-728: one iteration of the inner loop, on keyword ki of
\* category ci, and the loop control that follows it.
ScanStep ==
  /\ pc = "scan"
  /\ steps' = steps + 1
  /\ LET rules == expiration_rules[ci]
         hit   == Contains(item_name_lower, rules.keywords[ki])
         md    == IF hit THEN DaysFor(rules, storage_type, matched_days)
                         ELSE matched_days
     IN  /\ matched_category' =
              IF hit THEN Some(rules.category) ELSE matched_category
         /\ matched_days' = md
         /\ IF hit /\ ShouldBreak(md)
            THEN /\ pc' = "decide"
                 /\ UNCHANGED << ci, ki >>
            ELSE IF ki < Len(rules.keywords)
            THEN /\ ki' = ki + 1
                 /\ UNCHANGED << pc, ci >>
            ELSE IF ShouldBreak(md)
            THEN /\ pc' = "decide"
                 /\ UNCHANGED << ci, ki >>
            ELSE IF ci < Len(expiration_rules)
            THEN /\ ci' = ci + 1
                 /\ ki' = 1
                 /\ UNCHANGED pc
            ELSE /\ pc' = "decide"
                 /\ UNCHANGED << ci, ki >>
  /\ expiration_rules' =
       RulesAfterIteration(expiration_rules, ci, storage_type, matched_days')
  /\ UNCHANGED << clock, via, request, storage_type, item_name_lower, today,
                  ret, response, prev, scan_sessions >>
  /\ UNCHANGED << frames, scanning >>

\* Lines 731-741: the function returns its tuple, or the date addition
\* raises OverflowError.
Decide ==
  /\ pc = "decide"
  /\ ret' = IF matched_days # None
            THEN HighReturn(today, matched_days, matched_category)
            ELSE LowReturn(today, matched_category)
  /\ pc' = IF via = "direct" THEN "done"
           ELSE IF ret'.kind = "ok" THEN "respond" ELSE "except"
  /\ UNCHANGED << clock, via, request, storage_type, locals, response, prev >>
  /\ UNCHANGED globals
  /\ UNCHANGED << frames, scanning >>

\* Lines 756-763: the handler reads the current date and answers.
Respond ==
  /\ pc = "respond"
  /\ response' = ResponseOf(ret, Today)
  /\ pc' = "done"
  /\ UNCHANGED << clock, via, request, storage_type, locals, ret, prev >>
  /\ UNCHANGED globals
  /\ UNCHANGED << frames, scanning >>

\* Lines 764-766: the handler's except clause.
HandleError ==
  /\ pc = "except"
  /\ response' = ErrorResponse
  /\ pc' = "done"
  /\ UNCHANGED << clock, via, request, storage_type, locals, ret, prev >>
  /\ UNCHANGED globals
  /\ UNCHANGED << frames, scanning >>

\* The caller makes the call once more through the same entry point: with
\* identical arguments, or with the storage type "pantry" spelled out.
CallAgain ==
  /\ pc = "done"
  /\ Len(prev) < MaxRepeats
  /\ prev' = Append(prev, [request |-> request, today |-> today,
                           ret |-> ret, response |-> response])
  /\ \E st \in {request.storage_type, Some("pantry")} :
       /\ request' = [request EXCEPT !.storage_type = st]
       /\ storage_type' = EntryStorage(via, st)
  /\ ret' = NoRet
  /\ response' = NoResponse
  /\ pc' = "enter"
  /\ UNCHANGED << clock, via, locals >>
  /\ UNCHANGED globals
  /\ UNCHANGED << frames, scanning >>

\* The caller makes the call once more with the letters of the item name in
\* the other case.
CallOtherCase ==
  /\ pc = "done"
  /\ Len(prev) < MaxRepeats
  /\ prev' = Append(prev, [request |-> request, today |-> today,
                           ret |-> ret, response |-> response])
  /\ \E n \in CaseVariants(request.name) \ {request.name} :
       request' = [request EXCEPT !.name = n]
  /\ storage_type' = EntryStorage(via, request.storage_type)
  /\ ret' = NoRet
  /\ response' = NoResponse
  /\ pc' = "enter"
  /\ UNCHANGED << clock, via, locals >>
  /\ UNCHANGED globals
  /\ UNCHANGED << frames, scanning >>

\* The caller is done with the result; the next call may differ.
Finish ==
  /\ pc = "done"
  /\ pc' = "idle"
  /\ request' = NoRequest
  /\ ret' = NoRet
  /\ response' = NoResponse
  /\ prev' = <<>>
  /\ item_name_lower' = <<>>
  /\ today' = None
  /\ matched_category' = None
  /\ matched_days' = None
  /\ ci' = 1
  /\ ki' = 1
  /\ steps' = 0
  /\ storage_type' = "pantry"
  /\ via' = "direct"
  /\ UNCHANGED clock
  /\ UNCHANGED globals
  /\ UNCHANGED << frames, scanning >>

Next ==
  \/ Tick
  \/ Call
  \/ Enter
  \/ ScanStep
  \/ Decide
  \/ Respond
  \/ HandleError
  \/ CallAgain
  \/ CallOtherCase
  \/ Finish

Spec == Init /\ [][Next]_vars

(***************************************************************************)
(* Concurrent callers.  The handler is a plain `def`, which the framework  *)
(* runs on worker threads, so calls of suggest_expiration_date overlap;    *)
(* each call has its own frame of locals, and the steps of different       *)
(* calls interleave between any two loop iterations.                       *)
(***************************************************************************)
ConcNames == { N_milk, N_eggs }
ConcStorages == { "freezer" }

\* Variant of ScanStateOf in which matched_category and matched_days are
\* shared: a call sees the match another call has just made.
ScanStateShared(fr, c) ==
  IF \E d \in DOMAIN fr : d # c /\ fr[d].pc = "decide" /\ fr[d].matched_days # None
  THEN LET d == CHOOSE d \in DOMAIN fr :
                  d # c /\ fr[d].pc = "decide" /\ fr[d].matched_days # None
       IN  [matched_category |-> fr[d].matched_category,
            matched_days |-> fr[d].matched_days]
  ELSE [matched_category |-> fr[c].matched_category,
        matched_days |-> fr[c].matched_days]

\* Lines 709-710: matched_category and matched_days are locals of the call,
\* so a call reads the scan state of its own frame.
ScanStateOf(fr, c) ==
  [matched_category |-> fr[c].matched_category,
   matched_days |-> fr[c].matched_days]

\* Caller c calls suggest_expiration_date (line 700).
CCall(c) ==
  /\ frames[c].pc = "idle"
  /\ \E n \in ConcNames, st \in ConcStorages :
       frames' = [frames EXCEPT ![c] =
                    [IdleFrame EXCEPT !.pc = "enter", !.name = n,
                                      !.storage_type = st]]
  /\ UNCHANGED << clock, sequential, globals, scanning >>

\* Lines 705-710 in the frame of caller c.
CEnter(c) ==
  /\ frames[c].pc = "enter"
  /\ frames' = [frames EXCEPT ![c] =
                  [@ EXCEPT !.pc = "scan",
                            !.item_name_lower = Lower(frames[c].name),
                            !.today = Anchor(None, Today),
                            !.matched_category = None,
                            !.matched_days = None,
                            !.ci = 1,
                            !.ki = 1]]
  /\ UNCHANGED << clock, sequential, globals, scanning >>

\* Lines 712-728 in the frame of caller c: one iteration of the inner loop.
CScanStep(c) ==
  /\ frames[c].pc = "scan"
  /\ LET f     == frames[c]
         seen  == ScanStateOf(frames, c)
         rules == expiration_rules[f.ci]
         hit   == Contains(f.item_name_lower, rules.keywords[f.ki])
         md    == IF hit THEN DaysFor(rules, f.storage_type, seen.matched_days)
                         ELSE seen.matched_days
         mc    == IF hit THEN Some(rules.category) ELSE seen.matched_category
         stop  == \/ hit /\ ShouldBreak(md)
                  \/ /\ f.ki = Len(rules.keywords)
                     /\ ShouldBreak(md) \/ f.ci = Len(expiration_rules)
     IN  frames' = [frames EXCEPT ![c] =
                      [@ EXCEPT !.matched_category = mc,
                                !.matched_days = md,
                                !.pc = IF stop THEN "decide" ELSE "scan",
                                !.ki = IF stop THEN f.ki
                                       ELSE IF f.ki < Len(rules.keywords)
                                       THEN f.ki + 1 ELSE 1,
                                !.ci = IF stop \/ f.ki < Len(rules.keywords)
                                       THEN f.ci ELSE f.ci + 1]]
  /\ UNCHANGED << clock, sequential, globals, scanning >>

\* Lines 731-741 in the frame of caller c.
CDecide(c) ==
  /\ frames[c].pc = "decide"
  /\ LET seen == ScanStateOf(frames, c)
     IN  frames' = [frames EXCEPT ![c] =
                      [@ EXCEPT !.pc = "done",
                                !.ret =
                                  IF seen.matched_days # None
                                  THEN HighReturn(frames[c].today,
                                                  seen.matched_days,
                                                  seen.matched_category)
                                  ELSE LowReturn(frames[c].today,
                                                 seen.matched_category)]]
  /\ UNCHANGED << clock, sequential, globals, scanning >>

\* Caller c has used the result; its frame is gone.
CFinish(c) ==
  /\ frames[c].pc = "done"
  /\ frames' = [frames EXCEPT ![c] = IdleFrame]
  /\ UNCHANGED << clock, sequential, globals, scanning >>

NextConc ==
  \E c \in Callers :
    \/ CCall(c)
    \/ CEnter(c)
    \/ CScanStep(c)
    \/ CDecide(c)
    \/ CFinish(c)

SpecConc == Init /\ [][NextConc]_vars

\* suggest_expiration_date run alone, from position (i, k) of the two loops
\* of lines 712-728 to their end: the final (matched_category, matched_days).
RECURSIVE ScanAlone(_, _, _, _, _, _)
ScanAlone(s, st, i, k, mc, md) ==
  LET rules == EXPIRATION_RULES[i]
      hit   == Contains(s, rules.keywords[k])
      md2   == IF hit THEN DaysFor(rules, st, md) ELSE md
      mc2   == IF hit THEN Some(rules.category) ELSE mc
  IN  IF hit /\ ShouldBreak(md2) THEN << mc2, md2 >>
      ELSE IF k < Len(rules.keywords) THEN ScanAlone(s, st, i, k + 1, mc2, md2)
      ELSE IF ShouldBreak(md2) THEN << mc2, md2 >>
      ELSE IF i < NumCategories THEN ScanAlone(s, st, i + 1, 1, mc2, md2)
      ELSE << mc2, md2 >>

\* What suggest_expiration_date(name, st) returns when it runs alone with
\* anchor date t.
RunAlone(name, st, t) ==
  LET r == ScanAlone(Lower(name), st, 1, 1, None, None)
  IN  IF r[2] # None THEN HighReturn(t, r[2], r[1]) ELSE LowReturn(t, r[1])

(***************************************************************************)
(* Pairs of calls.  suggest_expiration_date is called for an item name and *)
(* then for a longer name that contains it, with the same storage type;    *)
(* the second call starts when the first has returned.                     *)
(***************************************************************************)
\* Every keyword of the rule table, lines 620-698.
AllKeywords ==
  UNION { { EXPIRATION_RULES[i].keywords[k] :
              k \in 1..Len(EXPIRATION_RULES[i].keywords) } :
          i \in 1..NumCategories }

\* item_name: every keyword of the table as a name of its own, and the
\* other names.
PairNames == AllKeywords \cup Names

\* storage_type as suggest_expiration_date receives it.
PairStorages == { "pantry", "fridge", "freezer", "shelf" }

\* The caller calls suggest_expiration_date (line 700) for n, and will call
\* it for a name n2 that contains n.  The first call of a pair runs in
\* frame 1, the second in frame 2.
PCall ==
  /\ frames[1].pc = "idle"
  /\ frames[2].pc = "idle"
  /\ \E n \in PairNames, st \in PairStorages :
       \E n2 \in { x \in PairNames : Contains(x, n) } :
         frames' = [frames EXCEPT
                      ![1] = [IdleFrame EXCEPT !.pc = "enter", !.name = n,
                                                   !.storage_type = st],
                      ![2] = [IdleFrame EXCEPT !.pc = "wait", !.name = n2,
                                                    !.storage_type = st]]
  /\ UNCHANGED << clock, sequential, globals, scanning >>

\* The first call has returned; the second call is made (line 700).
PCallSecond ==
  /\ frames[1].pc = "done"
  /\ frames[2].pc = "wait"
  /\ frames' = [frames EXCEPT ![2] = [@ EXCEPT !.pc = "enter"]]
  /\ UNCHANGED << clock, sequential, globals, scanning >>

\* Both calls have returned and the caller has used the results.
PFinish ==
  /\ frames[1].pc = "done"
  /\ frames[2].pc = "done"
  /\ frames' = [frames EXCEPT ![1] = IdleFrame, ![2] = IdleFrame]
  /\ UNCHANGED << clock, sequential, globals, scanning >>

NextPairs ==
  \/ PCall
  \/ PCallSecond
  \/ PFinish
  \/ \E c \in {1, 2} :
       \/ CEnter(c)
       \/ CScanStep(c)
       \/ CDecide(c)

SpecPairs == Init /\ [][NextPairs]_vars

(***************************************************************************)
(* Receipt scanning from a phone: create-session, scan-mobile and          *)
(* scan-result (lines 1145-1319).  The three handlers are `async def`, so  *)
(* they run on the event loop and a handler gives way to other requests    *)
(* only at an `await`: one action is the code between two awaits.  The     *)
(* answer of a handler that returns or raises is held in reply until it    *)
(* has been sent (SendReply); the event loop then takes up the next piece  *)
(* of work.                                                                *)
(***************************************************************************)
\* The Authorization header of scan-result: absent, empty, "Bearer <user>"
\* for two users (once with more blanks), another scheme, and the scheme
\* without a user.
U1 == << "u", "1" >>
U2 == << "u", "2" >>
Bearer == << "B", "e", "a", "r", "e", "r" >>
Basic == << "B", "a", "s", "i", "c" >>
Headers ==
  { None, Some(<<>>), Some(Bearer \o <<" ">> \o U1),
    Some(Bearer \o <<" ">> \o U2), Some(Basic \o <<" ">> \o U1),
    Some(Bearer), Some(Bearer \o <<" ", " ">> \o U2 \o <<" ">>) }

\* The Authorization header of create-session: the sessions of a run are
\* created by one user, or refused.
CreateHeaders ==
  { None, Some(<<>>), Some(Bearer \o <<" ">> \o U1),
    Some(Basic \o <<" ">> \o U1), Some(Bearer) }

\* The end of the first word of s, which starts with a non-blank.
WordEnd(s) ==
  CHOOSE n \in 1..(Len(s) + 1) :
    /\ n = Len(s) + 1 \/ s[n] = " "
    /\ \A j \in 1..(n - 1) : s[j] # " "

\* authorization.split(), line 236.
RECURSIVE Split(_)
Split(s) ==
  IF s = <<>> THEN <<>>
  ELSE IF s[1] = " " THEN Split(Tail(s))
  ELSE << SubSeq(s, 1, WordEnd(s) - 1) >>
         \o Split(SubSeq(s, WordEnd(s), Len(s)))

\* Lines 226-240: the user id of a request, from its Authorization header.
get_user_id(authorization) ==
  IF authorization = None \/ authorization = Some(<<>>) THEN None
  ELSE LET parts == Split(authorization[1])
       IN  IF Len(parts) = 2 /\ parts[1] = Bearer THEN Some(parts[2])
           ELSE None

\* A token of the request: one of the tokens create-session can have handed
\* out, or one it never has.
TokenInputs == 1..(MaxSessions + 1)

\* Lines 1157-1162: the session stored for a new token.
NewSession(user_id) ==
  [user_id |-> user_id, status |-> "pending", created_at |-> clock,
   completed_at |-> None, result |-> None]

\* Lines 1275-1278: the result of a completed session.
ItemsResult(added_items) ==
  Some([items |-> Some(added_items), count |-> Some(Len(added_items)),
        error |-> None])

\* Lines 1286 and 1291: the result of a failed session.
ErrorResult(msg) ==
  Some([items |-> None, count |-> None, error |-> Some(msg)])

\* Variant of CompleteSession that sets the status and leaves the result
\* for later.
CompleteSessionStatusOnly(sessions, token, added_items) ==
  [sessions EXCEPT ![token] = [@ EXCEPT !.status = "completed",
                                        !.completed_at = Some(clock)]]

\* Lines 1274-1279.
CompleteSession(sessions, token, added_items) ==
  [sessions EXCEPT ![token] = [@ EXCEPT !.status = "completed",
                                        !.result = ItemsResult(added_items),
                                        !.completed_at = Some(clock)]]

\* Lines 1285-1286 and 1290-1291.
FailSession(sessions, token, msg) ==
  [sessions EXCEPT ![token] = [@ EXCEPT !.status = "error",
                                        !.result = ErrorResult(msg)]]

\* Variant of GetScanResult without the check of the session's owner.
GetScanResultAnyUser(sessions, authorization, token) ==
  LET user_id == get_user_id(authorization)
      Raise(code) == [NoReply EXCEPT !.op = "get", !.code = code]
  IN  IF user_id = None THEN Raise(401)
      ELSE IF token \notin DOMAIN sessions THEN Raise(404)
      ELSE [NoReply EXCEPT
              !.op = "get", !.code = 200, !.status = sessions[token].status,
              !.result = IF sessions[token].status = "pending" THEN None
                         ELSE sessions[token].result]

\* Lines 1295-1319: what scan-result answers.
GetScanResult(sessions, authorization, token) ==
  LET user_id == get_user_id(authorization)
      Raise(code) == [NoReply EXCEPT !.op = "get", !.code = code]
  IN  IF user_id = None THEN Raise(401)
      ELSE IF token \notin DOMAIN sessions THEN Raise(404)
      ELSE IF sessions[token].user_id # user_id[1] THEN Raise(403)
      ELSE [NoReply EXCEPT
              !.op = "get", !.code = 200, !.status = sessions[token].status,
              !.result = IF sessions[token].status = "pending" THEN None
                         ELSE sessions[token].result]

\* The elements of the JSON array in the model's answer: an object with
\* name and quantity, an object with neither, and an element that is not an
\* object (a string).
GoodItem == [dict |-> TRUE, name |-> Some("Milk"), quantity |-> Some(2)]
BareItem == [dict |-> TRUE, name |-> None, quantity |-> None]
NonDictItem == [dict |-> FALSE, name |-> None, quantity |-> None]

\* What line 1188 to line 1230 come to: the upload cannot be read, the call
\* to the model fails, its answer holds no JSON array, the array found is
\* not valid JSON, or json.loads returns a list.
Contents ==
  { [kind |-> "read_error", items |-> <<>>],
    [kind |-> "openai_error", items |-> <<>>],
    [kind |-> "no_array", items |-> <<>>],
    [kind |-> "bad_json", items |-> <<>>],
    [kind |-> "items", items |-> <<>>],
    [kind |-> "items", items |-> << GoodItem >>],
    [kind |-> "items", items |-> << BareItem, GoodItem >>],
    [kind |-> "items", items |-> << GoodItem, NonDictItem >>] }

\* str(e) of the exception each failure raises.
ErrorText(kind) ==
  IF kind = "read_error" THEN "read failed"
  ELSE IF kind = "openai_error" THEN "openai failed"
  ELSE IF kind = "no_array" THEN "Could not find JSON array in response"
  ELSE IF kind = "db_error" THEN "insert failed"
  ELSE "'str' object has no attribute 'get'"

\* Lines 1235-1239: new_item.  The row also records the token and the
\* request it was inserted for, which the code does not store.
NewItem(item, call) ==
  [user_id |-> call.user_id,
   name |-> IF item.name = None THEN "" ELSE item.name[1],
   quantity |-> IF item.quantity = None THEN 1 ELSE item.quantity[1],
   usda_fdc_id |-> None,
   token |-> call.token,
   by |-> call.by]

\* Lines 1257-1262: a food was found for the item.
WithUsdaMatch(new_item) ==
  [new_item EXCEPT !.usda_fdc_id = Some(1), !.name = "MILK, WHOLE"]

\* Where the loop of lines 1234-1269 stands when the handler next gives way:
\* it has finished, it has raised, or it awaits the USDA answer for item idx.
LoopState(kind, idx, added_items, table, err) ==
  [kind |-> kind, idx |-> idx, added_items |-> added_items,
   table |-> table, err |-> err]

\* Lines 1234-1269 from item i on (LoopFrom), and lines 1268-1269 for item
\* i followed by the rest of the loop (InsertAndGoOn).  failAt is the item
\* whose insert the database refuses, 0 when it refuses none.
RECURSIVE LoopFrom(_, _, _, _, _)
RECURSIVE InsertAndGoOn(_, _, _, _, _, _)
LoopFrom(call, i, added_items, table, failAt) ==
  IF i > Len(call.items)
  THEN LoopState("completed", i, added_items, table, "")
  ELSE IF ~call.items[i].dict
  THEN LoopState("error", i, added_items, table, ErrorText("attribute_error"))
  ELSE IF USDA_API_KEY
  THEN LoopState("await", i, added_items, table, "")
  ELSE InsertAndGoOn(call, i, NewItem(call.items[i], call), added_items,
                     table, failAt)

InsertAndGoOn(call, i, new_item, added_items, table, failAt) ==
  IF failAt = i
  THEN LoopState("error", i, added_items, table, ErrorText("db_error"))
  ELSE LoopFrom(call, i + 1, Append(added_items, new_item),
                Append(table, new_item), failAt)

\* The frame of a call of scan_receipt_mobile that has answered.
ScanDone(token) ==
  [pc |-> "done", token |-> token, user_id |-> <<>>, items |-> <<>>,
   idx |-> 0, added_items |-> <<>>]

\* The answer of call r of scan_receipt_mobile: its status code and, for an
\* answer given by an except clause of lines 1283-1292, which one.
ScanReply(r, token, code, handler) ==
  [NoReply EXCEPT !.op = "scan", !.code = code, !.token = Some(token),
                  !.by = r, !.handler = handler]

\* Lines 1174-1188: scan-mobile arrives.  An unknown token, a session that
\* is not pending and a missing OpenAI client are refused; otherwise the
\* handler awaits the upload.
ScanBegin ==
  /\ reply = NoReply
  /\ Len(scans) < MaxScans
  /\ \E token \in TokenInputs :
       LET r == Len(scans) + 1
           Refuse(code) ==
             /\ scans' = Append(scans, ScanDone(token))
             /\ reply' = ScanReply(r, token, code, "")
       IN  IF token \notin DOMAIN scan_sessions THEN Refuse(404)
           ELSE IF scan_sessions[token].status # "pending" THEN Refuse(400)
           ELSE IF ~openai_client THEN Refuse(500)
           ELSE /\ scans' = Append(scans,
                     [pc |-> "read", token |-> token,
                      user_id |-> scan_sessions[token].user_id,
                      items |-> <<>>, idx |-> 0, added_items |-> <<>>])
                /\ UNCHANGED reply
  /\ UNCHANGED << clock, sequential, expiration_rules, scan_sessions, frames,
                  openai_client, USDA_API_KEY, items_table >>

\* Call r goes on from loop state out: lines 1274-1281 when the loop has
\* finished, lines 1288-1292 when it has raised, and the await of line 1254
\* otherwise.
GoOn(r, items, out) ==
  /\ items_table' = out.table
  /\ IF out.kind = "completed"
     THEN /\ scan_sessions' =
               CompleteSession(scan_sessions, scans[r].token, out.added_items)
          /\ scans' = [scans EXCEPT ![r] = ScanDone(@.token)]
          /\ reply' = ScanReply(r, scans[r].token, 200, "")
     ELSE IF out.kind = "error"
     THEN /\ scan_sessions' = FailSession(scan_sessions, scans[r].token, out.err)
          /\ scans' = [scans EXCEPT ![r] = ScanDone(@.token)]
          /\ reply' = ScanReply(r, scans[r].token, 500, "Exception")
     ELSE /\ scans' = [scans EXCEPT ![r] =
                         [@ EXCEPT !.pc = "usda", !.items = items,
                                   !.idx = out.idx,
                                   !.added_items = out.added_items]]
          /\ UNCHANGED << scan_sessions, reply >>

\* Lines 1188-1254: the upload has been read (or not); the model is asked,
\* its answer parsed and the loop over the items started.
ScanRead(r) ==
  /\ reply = NoReply
  /\ scans[r].pc = "read"
  /\ \E content \in Contents :
       IF content.kind = "bad_json"
       THEN /\ scan_sessions' = FailSession(scan_sessions, scans[r].token,
                                            "Failed to parse receipt data")
            /\ scans' = [scans EXCEPT ![r] = ScanDone(@.token)]
            /\ reply' = ScanReply(r, scans[r].token, 500, "JSONDecodeError")
            /\ UNCHANGED items_table
       ELSE IF content.kind # "items"
       THEN /\ scan_sessions' = FailSession(scan_sessions, scans[r].token,
                                            ErrorText(content.kind))
            /\ scans' = [scans EXCEPT ![r] = ScanDone(@.token)]
            /\ reply' = ScanReply(r, scans[r].token, 500, "Exception")
            /\ UNCHANGED items_table
       ELSE \E failAt \in 0..Len(content.items) :
              LET call == [items |-> content.items, user_id |-> scans[r].user_id,
                           token |-> scans[r].token, by |-> r]
              IN  GoOn(r, content.items,
                       LoopFrom(call, 1, <<>>, items_table, failAt))
  /\ UNCHANGED << clock, sequential, expiration_rules, frames,
                  openai_client, USDA_API_KEY >>

\* Lines 1254-1269 and on: the USDA lookup for item idx has answered with a
\* food, with none, or has failed; the item is inserted and the loop goes on
\* to the next await or to its end.
ScanLookup(r) ==
  /\ reply = NoReply
  /\ scans[r].pc = "usda"
  /\ \E look \in {"match", "no_match", "raise"}, refused \in BOOLEAN :
       LET f        == scans[r]
           call     == [items |-> f.items, user_id |-> f.user_id,
                        token |-> f.token, by |-> r]
           built    == NewItem(f.items[f.idx], call)
           new_item == IF look = "match" THEN WithUsdaMatch(built) ELSE built
       IN  GoOn(r, f.items,
                InsertAndGoOn(call, f.idx, new_item, f.added_items,
                              items_table, IF refused THEN f.idx ELSE 0))
  /\ UNCHANGED << clock, sequential, expiration_rules, frames,
                  openai_client, USDA_API_KEY >>

\* Lines 1145-1165: create-session.  The token is a fresh uuid4: the next
\* token number.
CreateSession ==
  /\ reply = NoReply
  /\ \E authorization \in CreateHeaders :
       LET user_id == get_user_id(authorization)
       IN  IF user_id = None
           THEN /\ reply' = [NoReply EXCEPT !.op = "create", !.code = 401]
                /\ UNCHANGED scan_sessions
           ELSE /\ Len(scan_sessions) < MaxSessions
                /\ scan_sessions' = Append(scan_sessions, NewSession(user_id[1]))
                /\ reply' = [NoReply EXCEPT !.op = "create", !.code = 200,
                                            !.token = Some(Len(scan_sessions) + 1)]
  /\ UNCHANGED << clock, sequential, expiration_rules, frames,
                  openai_client, USDA_API_KEY, items_table, scans >>

\* Lines 1295-1319: scan-result.
GetResult ==
  /\ reply = NoReply
  /\ \E authorization \in Headers, token \in TokenInputs :
       reply' = GetScanResult(scan_sessions, authorization, token)
  /\ UNCHANGED << clock, sequential, globals, frames,
                  openai_client, USDA_API_KEY, items_table, scans >>

\* The answer has been sent to the client.
SendReply ==
  /\ reply # NoReply
  /\ reply' = NoReply
  /\ UNCHANGED << clock, sequential, globals, frames,
                  openai_client, USDA_API_KEY, items_table, scans >>

NextScan ==
  \/ SendReply
  \/ CreateSession
  \/ GetResult
  \/ ScanBegin
  \/ \E r \in DOMAIN scans :
       \/ ScanRead(r)
       \/ ScanLookup(r)

SpecScan == InitScan /\ [][NextScan]_vars

TypeOK ==
  /\ clock \in Clock0..(Clock0 + MaxTicks)
  /\ pc \in {"idle", "enter", "scan", "decide", "respond", "except", "done"}
  /\ via \in Vias
  /\ ci \in 1..Len(expiration_rules)
  /\ ki \in 1..Len(expiration_rules[ci].keywords)
  /\ ret.kind \in {"none", "ok", "raise"}
  /\ response.status \in {0, 200, 500}
  /\ Len(prev) <= MaxRepeats

(***************************************************************************)
(* Vocabulary of the properties.                                           *)
(***************************************************************************)
Modes == {"pantry", "fridge", "freezer"}

\* The shelf-life entry of a rule for a storage type; absent for any other
\* string.
Entry(rules, st) ==
  IF st = "pantry" THEN rules.pantry
  ELSE IF st = "fridge" THEN rules.fridge
  ELSE IF st = "freezer" THEN rules.freezer
  ELSE None

\* Some keyword of category i occurs in s.
KeywordHit(s, i) ==
  \E k \in 1..Len(EXPIRATION_RULES[i].keywords) :
    Contains(s, EXPIRATION_RULES[i].keywords[k])

\* The categories that match s by keyword and have an entry for st.
UsableCategories(s, st) ==
  { i \in 1..NumCategories :
      KeywordHit(s, i) /\ Entry(EXPIRATION_RULES[i], st) # None }

FirstOf(S) == CHOOSE i \in S : \A j \in S : i <= j

\* The rule whose category is c.
RuleOf(c) ==
  EXPIRATION_RULES[CHOOSE i \in 1..NumCategories :
                     EXPIRATION_RULES[i].category = c]

\* suggest_expiration_date has returned or raised.
Returned == ret.kind # "none"

\* The date the shelf life is counted from: purchased_date when the caller
\* gave one, else the current date the function read.
AnchorDate ==
  IF request.purchased_date # None THEN request.purchased_date[1] ELSE today

OkResult(d, conf, cat) ==
  [kind |-> "ok", suggested_date |-> d, confidence |-> conf, category |-> cat]

(***************************************************************************)
(* C1: for every item name, every storage type in {pantry, fridge,         *)
(* freezer} and every purchased_date, the function returns the result of   *)
(* the first-match scan: with the first category in table order that has   *)
(* a keyword in the lowercased name and an entry for the storage type, the *)
(* result is (purchased_date + entry days, "high", category), whenever     *)
(* that sum is a date.  A later usable category never overrides it.        *)
(***************************************************************************)
C1_FirstMatchWins ==
  (Returned /\ storage_type \in Modes) =>
    LET U == UsableCategories(Lower(request.name), storage_type)
    IN  U # {} =>
          LET r    == EXPIRATION_RULES[FirstOf(U)]
              days == Entry(r, storage_type)[1]
          IN  CanAddDays(AnchorDate, days) =>
                ret = OkResult(AddDays(AnchorDate, days), "high",
                               Some(r.category))

\* A call has returned for a name that two or more usable categories match.
C1_Witness ==
  /\ pc = "done"
  /\ storage_type \in Modes
  /\ Cardinality(UsableCategories(Lower(request.name), storage_type)) >= 2
  /\ ret.confidence = "high"

(***************************************************************************)
(* C2: for every item name, the empty string included, that contains no    *)
(* keyword of any category, and for every storage type and purchased_date, *)
(* the function returns exactly (purchased_date + 7 days, "low", None),    *)
(* whenever that sum is a date.                                            *)
(***************************************************************************)
C2_UnmatchedDefault ==
  ( /\ Returned
    /\ \A i \in 1..NumCategories : ~KeywordHit(Lower(request.name), i)
    /\ CanAddDays(AnchorDate, 7) )
  => ret = OkResult(AddDays(AnchorDate, 7), "low", None)

\* A call with the empty name has returned the default.
C2_Witness ==
  /\ pc = "done"
  /\ request.name = <<>>
  /\ ret.kind = "ok"
  /\ ret.confidence = "low"

\* Call i of prev and the call in progress differ only in that the call in
\* progress names the storage type "pantry", and count from the same date.
SameButPantry(i) ==
  /\ request = [prev[i].request EXCEPT !.storage_type = Some("pantry")]
  /\ prev[i].today = today

\* The suggestion part of the handler's two answers is the same.
SameSuggestion(r1, r2) ==
  /\ r1.status = r2.status
  /\ r1.suggested_date = r2.suggested_date
  /\ r1.confidence = r2.confidence
  /\ r1.category = r2.category

(***************************************************************************)
(* C3: for every item name and every storage_type string other than        *)
(* "pantry", "fridge" and "freezer", the suggestion (date, confidence,     *)
(* category) is the one the same call gets with storage_type "pantry".     *)
(***************************************************************************)
C3_UnrecognizedIsPantry ==
  pc = "done" =>
    \A i \in 1..Len(prev) :
      ( /\ prev[i].request.storage_type # None
        /\ prev[i].request.storage_type[1] \notin Modes
        /\ SameButPantry(i) )
      => prev[i].ret = ret

(***************************************************************************)
(* C4: every result of the function has a suggested_date, and its          *)
(* confidence is "high" exactly when its category is not None; the         *)
(* low-confidence result has category None also when the scan matched a    *)
(* keyword of a category that has no entry for the storage type.           *)
(***************************************************************************)
C4_ConfidenceIffCategory ==
  ret.kind = "ok" =>
    /\ ret.suggested_date # None
    /\ ret.confidence \in {"high", "low"}
    /\ (ret.confidence = "high") <=> (ret.category # None)

\* A low-confidence result after the scan had matched a category by keyword.
C4_Witness ==
  /\ pc = "done"
  /\ ret.kind = "ok"
  /\ ret.confidence = "low"
  /\ matched_category # None

(***************************************************************************)
(* C5: when purchased_date is supplied, suggested_date is purchased_date   *)
(* plus the chosen day count (the matched shelf life, or 7), whatever the  *)
(* current date; purchased_date 2024-01-01, item "milk", storage "fridge"  *)
(* gives 2024-01-08 for every value of the current date.                   *)
(***************************************************************************)
C5_PurchasedDateAnchors ==
  /\ (ret.kind = "ok" /\ request.purchased_date # None) =>
       ret.suggested_date =
         AddDays(request.purchased_date[1],
                 IF matched_days # None THEN matched_days[1] ELSE 7)
  /\ ( /\ Returned
       /\ request.name = N_milk
       /\ storage_type = "fridge"
       /\ request.purchased_date = Some(<<2024, 1, 1>>) ) =>
       /\ ret.suggested_date = <<2024, 1, 8>>
       /\ response.status = 200 =>
            response.suggested_date =
              Some(<<"2", "0", "2", "4", "-", "0", "1", "-", "0", "8">>)

\* The milk request has been answered on a later day than the first.
C5_Witness ==
  /\ pc = "done"
  /\ via = "handler"
  /\ request.name = N_milk
  /\ storage_type = "fridge"
  /\ request.purchased_date = Some(<<2024, 1, 1>>)
  /\ clock > Clock0
  /\ response.status = 200

(***************************************************************************)
(* C6: the advisor is total: for any item name, any storage_type and any   *)
(* purchased_date, dates at the upper end of the date range included,      *)
(* suggest_expiration_date returns without raising and the handler never   *)
(* answers 500.                                                            *)
(***************************************************************************)
C6_Total ==
  /\ ret.kind # "raise"
  /\ response.status # 500

(***************************************************************************)
(* C7 as stated: two calls with identical inputs (same name, storage_type  *)
(* and purchased_date argument, an omitted purchased_date included) return *)
(* identical output.                                                       *)
(***************************************************************************)
C7_Idempotent ==
  pc = "done" =>
    \A i \in 1..Len(prev) :
      prev[i].request = request => prev[i].ret = ret

(***************************************************************************)
(* C7 as amended: two calls with identical inputs return identical output  *)
(* when purchased_date is supplied, or when it is omitted and the current  *)
(* date the two calls read is the same.                                    *)
(***************************************************************************)
C7_IdempotentSameAnchor ==
  pc = "done" =>
    \A i \in 1..Len(prev) :
      ( /\ prev[i].request = request
        /\ request.purchased_date # None \/ prev[i].today = today )
      => prev[i].ret = ret

\* The same request with a purchased_date was answered on two different
\* days: the two answers differ in days_from_now only.
C7_Witness ==
  /\ pc = "done"
  /\ via = "handler"
  /\ Len(prev) >= 1
  /\ prev[1].request = request
  /\ request.purchased_date # None
  /\ response.status = 200
  /\ prev[1].response.days_from_now # response.days_from_now

(***************************************************************************)
(* C8: a request that leaves storage_type unspecified (field absent in the *)
(* handler, argument omitted in the function) gets the same suggestion as  *)
(* the same request with storage_type "pantry".                            *)
(***************************************************************************)
C8_UnspecifiedIsPantry ==
  pc = "done" =>
    \A i \in 1..Len(prev) :
      (prev[i].request.storage_type = None /\ SameButPantry(i)) =>
        /\ prev[i].ret = ret
        /\ SameSuggestion(prev[i].response, response)

\* A request without storage_type and then the same request with "pantry"
\* have both been answered with a matched category.
C8_Witness ==
  /\ pc = "done"
  /\ via = "handler"
  /\ Len(prev) >= 1
  /\ prev[1].request.storage_type = None
  /\ SameButPantry(1)
  /\ response.status = 200
  /\ response.confidence = "high"

(***************************************************************************)
(* C9: a category whose shelf-life entry for the requested storage type is *)
(* absent is never the result category; item "milk" with storage "pantry"  *)
(* yields (purchased_date + 7 days, "low", None).                          *)
(***************************************************************************)
C9_AbsentEntryNeverReturned ==
  /\ (ret.kind = "ok" /\ ret.category # None) =>
       Entry(RuleOf(ret.category[1]), storage_type) # None
  /\ ( /\ Returned
       /\ request.name = N_milk
       /\ storage_type = "pantry"
       /\ CanAddDays(AnchorDate, 7) ) =>
       ret = OkResult(AddDays(AnchorDate, 7), "low", None)

\* "milk" in the pantry has been answered after the scan matched dairy.
C9_Witness ==
  /\ pc = "done"
  /\ request.name = N_milk
  /\ storage_type = "pantry"
  /\ matched_category = Some("dairy")
  /\ ret.kind = "ok"

(***************************************************************************)
(* C10: "banana bread" matches produce_long ("banana") and bread           *)
(* ("bread"); the result category is produce_long, the earlier one in      *)
(* table order, with 30 days in the pantry, 14 in the fridge and 90 in the *)
(* freezer; bread is never returned for it.                                *)
(***************************************************************************)
C10_BananaBread ==
  (Returned /\ request.name = N_banana_bread) =>
    /\ ret.category # Some("bread")
    /\ \A st \in Modes :
         LET days == IF st = "pantry" THEN 30
                     ELSE IF st = "fridge" THEN 14 ELSE 90
         IN  (storage_type = st /\ CanAddDays(AnchorDate, days)) =>
               ret = OkResult(AddDays(AnchorDate, days), "high",
                              Some("produce_long"))

\* "banana bread" in the freezer has been answered.
C10_Witness ==
  /\ pc = "done"
  /\ request.name = N_banana_bread
  /\ storage_type = "freezer"
  /\ ret.category = Some("produce_long")

(***************************************************************************)
(* C11: item "milk" with storage "fridge" gets category "dairy", day       *)
(* count 7 (suggested_date = purchased_date + 7) and confidence "high".    *)
(***************************************************************************)
C11_MilkFridge ==
  ( /\ Returned
    /\ request.name = N_milk
    /\ storage_type = "fridge"
    /\ CanAddDays(AnchorDate, 7) )
  => /\ ret = OkResult(AddDays(AnchorDate, 7), "high", Some("dairy"))
     /\ matched_days = Some(7)

\* "milk" in the fridge has been answered through the handler.
C11_Witness ==
  /\ pc = "done"
  /\ request.name = N_milk
  /\ storage_type = "fridge"
  /\ response.status = 200
  /\ response.category = Some("dairy")

(***************************************************************************)
(* C12: item "chicken breast" with storage "freezer" gets category "meat", *)
(* matched through the keyword "chicken" with no earlier category          *)
(* matching, day count 180 and confidence "high".                          *)
(***************************************************************************)
C12_ChickenBreastFreezer ==
  ( /\ Returned
    /\ request.name = N_chicken_breast
    /\ storage_type = "freezer"
    /\ CanAddDays(AnchorDate, 180) )
  => /\ ret = OkResult(AddDays(AnchorDate, 180), "high", Some("meat"))
     /\ matched_days = Some(180)
     /\ EXPIRATION_RULES[ci].category = "meat"
     /\ EXPIRATION_RULES[ci].keywords[ki] = <<"c", "h", "i", "c", "k", "e", "n">>
     /\ \A i \in 1..(ci - 1) : ~KeywordHit(item_name_lower, i)

\* "chicken breast" in the freezer has been answered.
C12_Witness ==
  /\ pc = "done"
  /\ request.name = N_chicken_breast
  /\ storage_type = "freezer"
  /\ ret.category = Some("meat")

(***************************************************************************)
(* C13: the confidence the advisor returns, and so the confidence of the   *)
(* handler's answer, is always "high" or "low" and never "medium".         *)
(***************************************************************************)
C13_NeverMedium ==
  /\ ret.kind = "ok" => ret.confidence \in {"high", "low"}
  /\ response.status = 200 => response.confidence \in {"high", "low"}
  /\ \A i \in 1..Len(prev) :
       /\ prev[i].ret.confidence # "medium"
       /\ prev[i].response.confidence # "medium"

\* The handler has answered once with "high" and once with "low".
C13_Witness ==
  /\ pc = "done"
  /\ Len(prev) >= 1
  /\ prev[1].response.status = 200
  /\ response.status = 200
  /\ prev[1].response.confidence = "low"
  /\ response.confidence = "high"

(***************************************************************************)
(* C14: days_from_now of the answer is (suggested_date - current date) in  *)
(* days, with the current date read when the answer is built; that is the  *)
(* day count + (purchased_date - current date) when purchased_date is      *)
(* given, and it is negative for a purchase back-dated by more than the    *)
(* day count.                                                              *)
(***************************************************************************)
C14_DaysFromNow ==
  [][ (pc = "respond" /\ pc' = "done") =>
        LET count == IF matched_days # None THEN matched_days[1] ELSE 7
        IN  /\ response'.days_from_now =
                 Some(ToOrdinal(ret.suggested_date) - clock)
            /\ request.purchased_date # None =>
                 /\ response'.days_from_now =
                      Some(count
                           + (ToOrdinal(request.purchased_date[1]) - clock))
                 /\ (clock - ToOrdinal(request.purchased_date[1]) > count) =>
                      response'.days_from_now[1] < 0 ]_vars

\* An answer for a purchase back-dated by more than its shelf life.
C14_Witness ==
  /\ pc = "done"
  /\ response.status = 200
  /\ request.purchased_date # None
  /\ response.days_from_now[1] < 0

\* Every character of b is the character of a at that place or its upper-
\* or lower-case variant.
SameUpToCase(a, b) ==
  /\ Len(a) = Len(b)
  /\ \A k \in 1..Len(a) : b[k] \in {a[k], UpperChar(a[k]), LowerChar(a[k])}

(***************************************************************************)
(* C15: matching is case-insensitive: for every item name, storage type    *)
(* and purchased_date the result is unchanged when letters of the name are *)
(* replaced by their upper- or lower-case variants.                        *)
(***************************************************************************)
C15_CaseInsensitive ==
  pc = "done" =>
    \A i \in 1..Len(prev) :
      ( /\ SameUpToCase(prev[i].request.name, request.name)
        /\ request = [prev[i].request EXCEPT !.name = request.name]
        /\ prev[i].today = today )
      => prev[i].ret = ret

(***************************************************************************)
(* C16: when purchased_date is not given, the anchor is the current date   *)
(* at the time of the call, and suggested_date is that date plus the day   *)
(* count (the matched shelf life, or 7 in the fallback).                   *)
(***************************************************************************)
C16_DefaultAnchorIsToday ==
  [][ request.purchased_date = None =>
        /\ (pc = "enter" /\ pc' = "scan") => today' = FromOrdinal(clock)
        /\ (pc = "decide" /\ ret'.kind = "ok") =>
             ret'.suggested_date =
               AddDays(today,
                       IF matched_days # None THEN matched_days[1] ELSE 7) ]_vars

\* A call without purchased_date, made after the first day, has returned a
\* matched category.
C16_Witness ==
  /\ pc = "done"
  /\ request.purchased_date = None
  /\ today = FromOrdinal(Clock0 + 1)
  /\ ret.kind = "ok"
  /\ ret.confidence = "high"

\* The categories that match s by keyword but have no entry for st.
SkippedCategories(s, st) ==
  { i \in 1..NumCategories :
      KeywordHit(s, i) /\ Entry(EXPIRATION_RULES[i], st) = None }

(***************************************************************************)
(* C18: when a category matches the name by keyword but has no entry for   *)
(* the storage type, the scan goes on, and a later category that matches   *)
(* and has an entry is returned with high confidence: "canned tuna" in the *)
(* pantry skips seafood and yields canned, 365 days.                       *)
(***************************************************************************)
C18_SkippedCategoryContinues ==
  (Returned /\ storage_type \in Modes) =>
    LET s == Lower(request.name)
        U == UsableCategories(s, storage_type)
    IN  /\ ( /\ U # {}
             /\ \E i \in SkippedCategories(s, storage_type) : i < FirstOf(U)
             /\ ret.kind = "ok" )
            => /\ ret.confidence = "high"
               /\ ret.category = Some(EXPIRATION_RULES[FirstOf(U)].category)
        /\ ( /\ request.name = N_canned_tuna
             /\ storage_type = "pantry"
             /\ CanAddDays(AnchorDate, 365) )
            => ret = OkResult(AddDays(AnchorDate, 365), "high", Some("canned"))

\* "canned tuna" in the pantry has been answered with category canned.
C18_Witness ==
  /\ pc = "done"
  /\ request.name = N_canned_tuna
  /\ storage_type = "pantry"
  /\ 3 \in SkippedCategories(item_name_lower, storage_type)
  /\ ret.category = Some("canned")

(***************************************************************************)
(* C20: an absent shelf-life entry is never read as a day count of 0: no   *)
(* high-confidence result has suggested_date equal to the anchor date, and *)
(* every result's suggested_date is strictly later than its anchor date.   *)
(***************************************************************************)
C20_AbsentIsNotZero ==
  ret.kind = "ok" =>
    /\ ToOrdinal(ret.suggested_date) > ToOrdinal(AnchorDate)
    /\ ret.confidence = "high" =>
         /\ ret.suggested_date # AnchorDate
         /\ matched_days # None
         /\ matched_days[1] > 0

\* "eggs" in the freezer, where the eggs rule has no entry, has been answered.
C20_Witness ==
  /\ pc = "done"
  /\ request.name = N_eggs
  /\ storage_type = "freezer"
  /\ matched_category = Some("eggs")
  /\ ret.kind = "ok"
  /\ ToOrdinal(ret.suggested_date) = ToOrdinal(AnchorDate) + 7

(***************************************************************************)
(* C19: suggest_expiration_date and the suggest-expiration handler leave   *)
(* the rule table (category order, keyword lists, shelf-life entries) and  *)
(* the scan_sessions map unchanged on every call, in the matched and in    *)
(* the fallback branch.                                                    *)
(***************************************************************************)
C19_TableAndSessionsUnchanged ==
  [][ /\ expiration_rules' = expiration_rules
      /\ expiration_rules' = EXPIRATION_RULES
      /\ scan_sessions' = scan_sessions ]_vars

\* A matched call and then a fallback call have both returned, through the
\* handler, with the table as it was defined.
C19_Witness ==
  /\ pc = "done"
  /\ via = "handler"
  /\ Len(prev) >= 1
  /\ prev[1].ret.confidence = "high"
  /\ ret.confidence = "low"
  /\ response.status = 200
  /\ expiration_rules = EXPIRATION_RULES
  /\ scan_sessions = <<>>

(***************************************************************************)
(* C17: any number of suggest calls interleaved at arbitrary points,       *)
(* without coordination, each return exactly the result the same call      *)
(* returns when run alone; no interleaving lets the scan state of one call *)
(* (matched category, matched days) affect another call's result.          *)
(***************************************************************************)
C17_InterleavedAsAlone ==
  \A c \in Callers :
    /\ frames[c].pc = "done" =>
         frames[c].ret =
           RunAlone(frames[c].name, frames[c].storage_type, frames[c].today)
    /\ frames[c].pc \in {"decide", "done"} =>
         << frames[c].matched_category, frames[c].matched_days >> =
           ScanAlone(Lower(frames[c].name), frames[c].storage_type, 1, 1,
                     None, None)

\* One call has returned a match while another call, for another name, is
\* in the middle of its scan past a category it skipped.
C17_Witness ==
  \E c, d \in Callers :
    /\ c # d
    /\ frames[c].pc = "done"
    /\ frames[c].ret.confidence = "high"
    /\ frames[d].pc = "scan"
    /\ frames[d].name # frames[c].name
    /\ frames[d].matched_category # None
    /\ frames[d].ci > 7

\* The number of (category, keyword) pairs of the table that come before
\* position (i, k) in the order of the two loops.
RECURSIVE PairsBefore(_, _)
PairsBefore(i, k) ==
  IF i = 1 THEN k - 1
  ELSE Len(EXPIRATION_RULES[i - 1].keywords) + PairsBefore(i - 1, 1) + (k - 1)

\* The number of (category, keyword) pairs of the table.
TotalPairs == PairsBefore(NumCategories + 1, 1)

(***************************************************************************)
(* C21: every call of suggest_expiration_date examines each (category,     *)
(* keyword) pair of the table at most once, in table order, and ends its   *)
(* scan after at most (categories x keywords) = 76 match steps; while the  *)
(* scan is not over its next step can always be taken.                     *)
(***************************************************************************)
C21_ScanBounded ==
  /\ TotalPairs = 76
  /\ steps <= TotalPairs
  /\ pc = "scan" =>
       /\ steps = PairsBefore(ci, ki)
       /\ ENABLED ScanStep
  /\ pc = "decide" => steps = PairsBefore(ci, ki) + 1

\* A call has gone through the whole table and returned.
C21_Witness ==
  /\ pc = "done"
  /\ steps = 76
  /\ ret.kind = "ok"

\* The categories with a keyword in s, whatever their entries.
HitCategories(s) == { i \in 1..NumCategories : KeywordHit(s, i) }

(***************************************************************************)
(* C22: under storage type "fridge" every category has an entry, so the    *)
(* result is high-confidence exactly when the lowercased name contains a   *)
(* keyword of the table, and its category is then the first category in    *)
(* table order with a matching keyword; a low-confidence result for a name *)
(* that contains a keyword occurs only under another storage type.         *)
(***************************************************************************)
C22_FridgeAlwaysMatches ==
  /\ \A i \in 1..NumCategories : EXPIRATION_RULES[i].fridge # None
  /\ ret.kind = "ok" =>
       LET H == HitCategories(Lower(request.name))
       IN  /\ storage_type = "fridge" =>
                /\ (ret.confidence = "high") <=> (H # {})
                /\ H # {} =>
                     ret.category = Some(EXPIRATION_RULES[FirstOf(H)].category)
           /\ (ret.confidence = "low" /\ H # {}) => storage_type # "fridge"

\* "eggs", whose rule has an entry for the refrigerator only, has been
\* answered for the refrigerator and then once more for the pantry.
C22_Witness ==
  /\ pc = "done"
  /\ request.name = N_eggs
  /\ Len(prev) >= 1
  /\ prev[1].request.storage_type = Some("fridge")
  /\ prev[1].ret.kind = "ok"
  /\ prev[1].ret.confidence = "high"
  /\ prev[1].ret.category = Some("eggs")
  /\ storage_type = "pantry"
  /\ ret.kind = "ok"
  /\ ret.confidence = "low"

\* The day count used for the suggestion that was returned: the gap between
\* the date the advisor anchored on and the date it suggested.
DayCountUsed == DaysBetween(ret.suggested_date, today)

(***************************************************************************)
(* C25: for a request to the handler without purchased_date, the returned  *)
(* days_from_now equals the day count used for the suggestion (the matched *)
(* shelf life, or 7 in the fallback), also when the current date advances  *)
(* between the advisor's reading of the date and the handler's.            *)
(***************************************************************************)
C25_DaysFromNowIsDayCount ==
  ( /\ pc = "done"
    /\ via = "handler"
    /\ request.purchased_date = None
    /\ response.status = 200 )
  => response.days_from_now = Some(DayCountUsed)

\* Milk for the pantry was answered by the handler with the date suggested
\* from the advisor's reading of the current date, and the date advanced
\* before the handler read it again at line 756.
C25_DateAdvanced ==
  /\ pc = "done"
  /\ via = "handler"
  /\ request.purchased_date = None
  /\ response.status = 200
  /\ today # None
  /\ DayCountUsed = 7
  /\ response.days_from_now = Some(6)

\* The position of category c in table order.
PositionOf(c) ==
  CHOOSE i \in 1..NumCategories : EXPIRATION_RULES[i].category = c

\* Both calls of a pair have returned.
PairDone == frames[1].pc = "done" /\ frames[2].pc = "done"

(***************************************************************************)
(* C23: extending a name preserves a match.  If item name n yields a       *)
(* high-confidence result under storage type s, every item name that       *)
(* contains n as a substring also yields a high-confidence result under s, *)
(* with a category at the same or an earlier position in table order.      *)
(***************************************************************************)
C23_ExtensionPreservesMatch ==
  ( /\ PairDone
    /\ frames[1].ret.kind = "ok"
    /\ frames[1].ret.confidence = "high" )
  => /\ frames[2].ret.kind = "ok"
     /\ frames[2].ret.confidence = "high"
     /\ PositionOf(frames[2].ret.category[1])
          <= PositionOf(frames[1].ret.category[1])

\* "bread" for the pantry was classified as bread, and "banana bread", which
\* contains it, as produce_long, an earlier category.
C23_Witness ==
  /\ PairDone
  /\ frames[1].name = N_bread
  /\ frames[2].name = N_banana_bread
  /\ frames[1].storage_type = "pantry"
  /\ frames[1].ret.confidence = "high"
  /\ frames[1].ret.category = Some("bread")
  /\ frames[2].ret.confidence = "high"
  /\ frames[2].ret.category = Some("produce_long")

(***************************************************************************)
(* C24: for every category C, every keyword k of C and every storage type  *)
(* s for which C has a shelf-life entry, an item named exactly k under     *)
(* storage s is classified as category C: no keyword is shadowed by a       *)
(* keyword of an earlier category that is a substring of it.               *)
(***************************************************************************)
C24_KeywordNamesOwnCategory ==
  \A c \in {1, 2} :
    frames[c].pc = "done" =>
      \A i \in 1..NumCategories :
        ( /\ \E k \in 1..Len(EXPIRATION_RULES[i].keywords) :
               frames[c].name = EXPIRATION_RULES[i].keywords[k]
          /\ Entry(EXPIRATION_RULES[i], frames[c].storage_type) # None )
        => frames[c].ret.category = Some(EXPIRATION_RULES[i].category)

\* The rows of the items table inserted by scan-mobile call r.
RowsBy(r) ==
  SelectSeq(items_table, LAMBDA row : row.by = r)

(***************************************************************************)
(* C29: in every state a request can observe, a scan session's result is   *)
(* None exactly when its status is "pending"; the result of a "completed"  *)
(* session holds the items a scan inserted, with a count equal to their    *)
(* number, and the result of an "error" session holds an error entry.      *)
(* scan-result answers accordingly.                                        *)
(***************************************************************************)
C29_ResultMatchesStatus ==
  /\ \A t \in DOMAIN scan_sessions :
       LET s == scan_sessions[t]
       IN  /\ s.status \in {"pending", "completed", "error"}
           /\ (s.result = None) <=> (s.status = "pending")
           /\ s.status = "completed" =>
                /\ s.result[1].items # None
                /\ s.result[1].error = None
                /\ s.result[1].count = Some(Len(s.result[1].items[1]))
                /\ \E r \in DOMAIN scans :
                     /\ scans[r].token = t
                     /\ scans[r].pc = "done"
                     /\ s.result[1].items[1] = RowsBy(r)
           /\ s.status = "error" =>
                /\ s.result[1].error # None
                /\ s.result[1].items = None
  /\ \A h \in Headers, t \in TokenInputs :
       LET a == GetScanResult(scan_sessions, h, t)
       IN  a.code = 200 => ((a.result = None) <=> (a.status = "pending"))

\* A session has been completed by a scan that inserted two items, and
\* scan-result has answered its owner with them.
C29_Witness ==
  /\ \E t \in DOMAIN scan_sessions :
       /\ scan_sessions[t].status = "completed"
       /\ scan_sessions[t].result[1].count = Some(2)
       /\ reply.op = "get"
       /\ reply.code = 200
       /\ reply.result = scan_sessions[t].result

(***************************************************************************)
(* C26: a scan session's status only moves from "pending" to "completed"   *)
(* or from "pending" to "error"; once it is "completed" or "error" it      *)
(* never changes again, under every interleaving of create-session,        *)
(* scan-mobile and scan-result requests, overlapping scan-mobile requests  *)
(* with the same token included.                                           *)
(***************************************************************************)
C26_StatusMovesOnce ==
  [][ \A t \in DOMAIN scan_sessions :
        \/ scan_sessions'[t].status = scan_sessions[t].status
        \/ /\ scan_sessions[t].status = "pending"
           /\ scan_sessions'[t].status \in {"completed", "error"} ]_vars

\* The scan-mobile calls that inserted a row for token t.
InsertersFor(t) ==
  { items_table[i].by :
      i \in { j \in DOMAIN items_table : items_table[j].token = t } }

(***************************************************************************)
(* C27: a scan token is single-use.  For each token at most one scan-mobile *)
(* request gets past the status check and inserts items into the items     *)
(* table, also when two scan-mobile requests with the same token are in    *)
(* flight at the same time.                                                *)
(***************************************************************************)
C27_TokenSingleUse ==
  \A t \in TokenInputs : Cardinality(InsertersFor(t)) <= 1

(***************************************************************************)
(* C28: when a scan ends with the session's status "error", no item of     *)
(* that scan has been inserted into the items table.                       *)
(***************************************************************************)
C28_ErrorLeavesNoItems ==
  ( /\ reply.op = "scan"
    /\ reply.handler # ""
    /\ scan_sessions[reply.token[1]].status = "error" )
  => RowsBy(reply.by) = <<>>

\* What scan-result may answer to a request with header h for token t.
DisclosureOK(h, t) ==
  LET a       == GetScanResult(scan_sessions, h, t)
      user_id == get_user_id(h)
  IN  /\ user_id = None => a.code = 401
      /\ (user_id # None /\ t \notin DOMAIN scan_sessions) => a.code = 404
      /\ ( /\ user_id # None
           /\ t \in DOMAIN scan_sessions
           /\ scan_sessions[t].user_id # user_id[1] ) => a.code = 403
      /\ a.code # 200 => (a.status = "" /\ a.result = None)
      /\ a.code = 200 =>
           /\ user_id = Some(scan_sessions[t].user_id)
           /\ a.status = scan_sessions[t].status

(***************************************************************************)
(* C30: scan-result discloses a session's status or result only to the     *)
(* authenticated user whose id created that session: a request with no     *)
(* user id gets 401, an unknown token gets 404, any other user gets 403;   *)
(* and no operation changes the user_id of a session after its creation,   *)
(* where it is the id of the authenticated caller.                         *)
(***************************************************************************)
C30_OnlyOwnerReads ==
  /\ [] ( /\ \A h \in Headers, t \in TokenInputs : DisclosureOK(h, t)
          /\ reply.op = "get" =>
               \E h \in Headers, t \in TokenInputs :
                 reply = GetScanResult(scan_sessions, h, t) )
  /\ [][ /\ \A t \in DOMAIN scan_sessions :
              /\ t \in DOMAIN scan_sessions'
              /\ scan_sessions'[t].user_id = scan_sessions[t].user_id
         /\ \A t \in DOMAIN scan_sessions' \ DOMAIN scan_sessions :
              /\ reply'.op = "create"
              /\ reply'.token = Some(t)
              /\ \E h \in Headers :
                   get_user_id(h) = Some(scan_sessions'[t].user_id) ]_vars

\* A session created by one user has been completed by a scan, and
\* scan-result has refused another user.
C30_Witness ==
  /\ Len(scan_sessions) >= 1
  /\ scan_sessions[1].user_id = U1
  /\ scan_sessions[1].status = "completed"
  /\ reply.op = "get"
  /\ reply.code = 403
====
